---- MODULE Spec2Model ----
(***************************************************************************)
(* Model of src/app.py: the Streamlit invoice-analysis script.  The state  *)
(* is the widgets (three uploaded CSV files, the cutoff date, the date     *)
(* column text input), st.session_state (processed, result_df) and the     *)
(* locals the button handler leaves behind (resa, invoices, clients, the   *)
(* messages it emitted).  The handler of the "Process Files" button is one *)
(* action; the pandas calls it makes are operators that compute what       *)
(* pandas computes on CSV cells kept as text (sequences of characters).    *)
(***************************************************************************)
EXTENDS Integers, Sequences, FiniteSets, TLC

VARIABLES invoice_file, boost_file, clients_file, cutoff_date, date_col_name,
          processed, result_df,
          pc, resa, invoices, clients, messages

vars == <<invoice_file, boost_file, clients_file, cutoff_date, date_col_name,
          processed, result_df, pc, resa, invoices, clients, messages>>

widgets == <<invoice_file, boost_file, clients_file, cutoff_date, date_col_name>>

(***************************************************************************)
(* Text: a CSV cell is a sequence of one-character strings.                *)
(***************************************************************************)
Digits == {"0", "1", "2", "3", "4", "5", "6", "7", "8", "9"}

DigitVal(c) ==
  CASE c = "0" -> 0 [] c = "1" -> 1 [] c = "2" -> 2 [] c = "3" -> 3
    [] c = "4" -> 4 [] c = "5" -> 5 [] c = "6" -> 6 [] c = "7" -> 7
    [] c = "8" -> 8 [] c = "9" -> 9

DigitChar(d) ==
  CASE d = 0 -> "0" [] d = 1 -> "1" [] d = 2 -> "2" [] d = 3 -> "3"
    [] d = 4 -> "4" [] d = 5 -> "5" [] d = 6 -> "6" [] d = 7 -> "7"
    [] d = 8 -> "8" [] d = 9 -> "9"

\* Code points of the characters the id texts are made of (sort order of str).
CharCode(c) ==
  CASE c = " " -> 32 [] c = "," -> 44 [] c = "-" -> 45 [] c = "." -> 46
    [] c \in Digits -> 48 + DigitVal(c)
    [] c = "A" -> 65 [] c = "B" -> 66 [] c = "N" -> 78
    [] c = "a" -> 97 [] c = "b" -> 98 [] c = "c" -> 99 [] c = "n" -> 110
    [] OTHER -> 127

AllDigits(t) == Len(t) > 0 /\ \A i \in 1..Len(t) : t[i] \in Digits

RECURSIVE DigitsVal(_)
DigitsVal(t) ==
  IF t = <<>> THEN 0
  ELSE DigitsVal(SubSeq(t, 1, Len(t) - 1)) * 10 + DigitVal(t[Len(t)])

RECURSIVE IntStr(_)
IntStr(n) ==
  IF n < 10 THEN <<DigitChar(n)>> ELSE IntStr(n \div 10) \o <<DigitChar(n % 10)>>

DotPositions(t) == {i \in 1..Len(t) : t[i] = "."}

\* A decimal literal with a decimal point: digits "." digits.  Numbers are kept
\* in hundredths, so the literals modelled carry at most two decimals.
DecimalAt(t, p) ==
  /\ AllDigits(SubSeq(t, 1, p - 1))
  /\ AllDigits(SubSeq(t, p + 1, Len(t)))
  /\ Len(t) - p <= 2

IsDecimalText(t) ==
  /\ Cardinality(DotPositions(t)) = 1
  /\ DecimalAt(t, CHOOSE i \in DotPositions(t) : TRUE)

IsNumText(t) == AllDigits(t) \/ IsDecimalText(t)

\* The value of a numeric literal, in hundredths.
FracVal(frac) == IF Len(frac) = 1 THEN DigitsVal(frac) * 10 ELSE DigitsVal(frac)

DecimalVal(t, p) ==
  DigitsVal(SubSeq(t, 1, p - 1)) * 100 + FracVal(SubSeq(t, p + 1, Len(t)))

Hundredths(t) ==
  IF AllDigits(t) THEN DigitsVal(t) * 100
  ELSE DecimalVal(t, CHOOSE i \in DotPositions(t) : TRUE)

\* str() of a float64 holding h hundredths: "1.0", "1.5", "15.25".
FloatStr(h) ==
  IntStr(h \div 100) \o <<".">> \o
    (IF h % 10 = 0 THEN <<DigitChar((h % 100) \div 10)>>
     ELSE <<DigitChar((h % 100) \div 10), DigitChar(h % 10)>>)

\* t1 < t2 in Python's order of str.
RECURSIVE StrLess(_, _)
StrLess(t1, t2) ==
  IF t2 = <<>> THEN FALSE
  ELSE IF t1 = <<>> THEN TRUE
  ELSE IF t1[1] # t2[1] THEN CharCode(t1[1]) < CharCode(t2[1])
  ELSE StrLess(Tail(t1), Tail(t2))

(***************************************************************************)
(* Values of a DataFrame cell.                                             *)
(***************************************************************************)
NaN == [k |-> "nan", v |-> 0]
NaT == [k |-> "nat", v |-> 0]
Num(h) == [k |-> "num", v |-> h]
Str(t) == [k |-> "str", v |-> t]
Timestamp(y, m, d) == [k |-> "ts", v |-> y * 10000 + m * 100 + d]

(***************************************************************************)
(* Column names.  The code tests `kw in col.lower()`; KeywordsOf gives,    *)
(* for each header the modelled files use, the keywords the code tests for *)
(* that occur in the header's lower-case form.                             *)
(***************************************************************************)
KeywordsOf(col) ==
  CASE col = "Date facture"     -> {"date"}
    [] col = "Jour"             -> {}
    [] col = "Numéro du client" -> {"client", "num"}
    [] col = "Client_ID"        -> {"client", "id"}
    [] col = "Montant TTC de la ligne facture ou avoir" -> {"montant"}
    [] col = "Montant"          -> {"montant"}
    [] col = "Nom du Produit"   -> {"nom", "produit"}
    [] col = "Produit"          -> {"produit"}
    [] col = "Email"            -> {"email"}
    [] col = "Adresse email"    -> {"email"}
    [] col = "Prenom_Nom"       -> {"nom"}
    [] col = "Nom"              -> {"nom"}
    [] OTHER                    -> {}

Contains(col, kw) == kw \in KeywordsOf(col)

(***************************************************************************)
(* pandas: a DataFrame is its column names (in order), the dtype of each   *)
(* column, its index labels and its rows (in order), each row a function   *)
(* from column name to value.                                              *)
(***************************************************************************)
Range(s) == {s[i] : i \in DOMAIN s}

HasCol(df, c) == c \in Range(df.columns)

ColValues(df, c) == {df.rows[i][c] : i \in DOMAIN df.rows}

EmptyDf == [columns |-> <<>>, dtypes |-> <<>>, index |-> <<>>, rows |-> <<>>]

\* The dtype the parser gives a column: int64 when every cell is an integer
\* literal, float64 when every cell is a number or empty, object otherwise.
InferDtype(cells) ==
  IF cells = {} THEN "object"
  ELSE IF \A t \in cells : AllDigits(t) THEN "int64"
  ELSE IF \A t \in cells : t = <<>> \/ IsNumText(t) THEN "float64"
  ELSE "object"

CellValue(dtype, t) ==
  IF t = <<>> THEN NaN
  ELSE IF dtype = "object" THEN Str(t)
  ELSE Num(Hundredths(t))

ColIndex(header, c) == CHOOSE j \in DOMAIN header : header[j] = c

Frame(file, dt) ==
  [columns |-> file.header,
   dtypes  |-> dt,
   index   |-> [i \in DOMAIN file.rows |-> i - 1],
   rows    |-> [i \in DOMAIN file.rows |->
                 [c \in Range(file.header) |->
                    CellValue(dt[c], file.rows[i][ColIndex(file.header, c)])]]]

\* pd.read_csv(file, sep=..., encoding=...): file is [header, rows] of cell texts.
read_csv(file) ==
  Frame(file, [c \in Range(file.header) |->
                 InferDtype({file.rows[i][ColIndex(file.header, c)] :
                               i \in DOMAIN file.rows})])

\* Series.isin: element x of the left column against the values of the right
\* one.  Numbers match numbers by value, strings match strings by text, a
\* missing value matches a missing value; a number never matches a string.
isin(x, values) == \E y \in values : x.k = y.k /\ x.v = y.v

\* df.rename(columns={old: new}, inplace=True)
rename(df, old, new) ==
  [columns |-> [j \in DOMAIN df.columns |->
                  IF df.columns[j] = old THEN new ELSE df.columns[j]],
   dtypes  |-> [c \in (Range(df.columns) \ {old}) \cup {new} |->
                  df.dtypes[IF c = new THEN old ELSE c]],
   index   |-> df.index,
   rows    |-> [i \in DOMAIN df.rows |->
                  [c \in (Range(df.columns) \ {old}) \cup {new} |->
                     df.rows[i][IF c = new THEN old ELSE c]]]]

\* df[mask]: the rows whose mask is True, in order, with their index labels.
RowsAt(df, pos) ==
  [df EXCEPT !.index = [j \in DOMAIN pos |-> df.index[pos[j]]],
             !.rows  = [j \in DOMAIN pos |-> df.rows[pos[j]]]]

FilterRows(df, keep(_)) ==
  RowsAt(df, SelectSeq([i \in DOMAIN df.rows |-> i], LAMBDA i : keep(df.rows[i])))

\* df.iloc[a:b]
iloc(df, a, b) ==
  [df EXCEPT !.index = SubSeq(df.index, a + 1, b),
             !.rows  = SubSeq(df.rows, a + 1, b)]

\* df[cols]
Project(df, cols) ==
  [columns |-> cols,
   dtypes  |-> [c \in Range(cols) |-> df.dtypes[c]],
   index   |-> df.index,
   rows    |-> [i \in DOMAIN df.rows |-> [c \in Range(cols) |-> df.rows[i][c]]]]

\* The text pd.to_datetime reads as a date: "YYYY-MM-DD" with a valid day.
DaysInMonth(y, m) ==
  IF m \in {4, 6, 9, 11} THEN 30
  ELSE IF m = 2 THEN (IF (y % 4 = 0 /\ y % 100 # 0) \/ y % 400 = 0 THEN 29 ELSE 28)
  ELSE 31

IsoShape(t) ==
  /\ Len(t) = 10
  /\ t[5] = "-" /\ t[8] = "-"
  /\ \A i \in {1, 2, 3, 4, 6, 7, 9, 10} : t[i] \in Digits

DateOrNaT(y, m, d) ==
  IF m \in 1..12 /\ d \in 1..DaysInMonth(y, m) THEN Timestamp(y, m, d) ELSE NaT

ParseDate(t) ==
  IF IsoShape(t)
    THEN DateOrNaT(DigitsVal(SubSeq(t, 1, 4)), DigitsVal(SubSeq(t, 6, 7)),
                   DigitsVal(SubSeq(t, 9, 10)))
    ELSE NaT

\* pd.to_datetime(value, errors='coerce') on one cell, at day resolution.  A
\* number is read as nanoseconds since the epoch.
to_datetime(x) ==
  IF x.k = "str" THEN ParseDate(x.v)
  ELSE IF x.k = "num" THEN Timestamp(1970, 1, 1)
  ELSE NaT

DatetimeColumn(df, c) ==
  [df EXCEPT !.dtypes[c] = "datetime64",
             !.rows = [i \in DOMAIN df.rows |->
                         [df.rows[i] EXCEPT ![c] = to_datetime(@)]]]

\* Series.astype(str) on one cell of a column of the given dtype.
astype_str(dtype, x) ==
  IF x.k = "str" THEN x
  ELSE IF x.k = "num" THEN
    (IF dtype = "int64" THEN Str(IntStr(x.v \div 100)) ELSE Str(FloatStr(x.v)))
  ELSE Str(<<"n", "a", "n">>)

StrColumn(df, c) ==
  [df EXCEPT !.dtypes[c] = "object",
             !.rows = [i \in DOMAIN df.rows |->
                         [df.rows[i] EXCEPT ![c] = astype_str(df.dtypes[c], @)]]]

\* Series.replace({',': '.'}, regex=True) on one cell: only strings change.
ReplaceComma(t) == [i \in DOMAIN t |-> IF t[i] = "," THEN "." ELSE t[i]]

replace_comma(x) == IF x.k = "str" THEN Str(ReplaceComma(x.v)) ELSE x

\* pd.to_numeric(value, errors='coerce') on one cell.
to_numeric(x) ==
  IF x.k = "str" THEN (IF IsNumText(x.v) THEN Num(Hundredths(x.v)) ELSE NaN)
  ELSE x

Msg(level, text) == [level |-> level, text |-> text]

NumClient == "Numéro du client"

pdTimestamp(d) == Timestamp(d.year, d.month, d.day)

(***************************************************************************)
(* The stages of the button handler (src/app.py lines 106-247).            *)
(***************************************************************************)

\* The mask of resa had line 123 been written with <=.
BeforeOrAtCutoff(x, ts) == x.k = "ts" /\ x.v <= ts.v

\* column < pd.Timestamp(cutoff_date): the mask of resa.
BeforeCutoff(x, ts) == x.k = "ts" /\ x.v < ts.v

\* column >= pd.Timestamp(cutoff_date): the mask of invoices.  Both masks are
\* False on NaT.
FromCutoff(x, ts) == x.k = "ts" /\ x.v >= ts.v

\* Lines 123-124 and 132-133: d is all_invoices with its date column converted.
SplitByDate(d, col, ts, msgs) ==
  [resa     |-> FilterRows(d, LAMBDA r : BeforeCutoff(r[col], ts)),
   invoices |-> FilterRows(d, LAMBDA r : FromCutoff(r[col], ts)),
   messages |-> msgs]

\* The split point had line 137 rounded up.
SplitPointCeil(n) == (n + 1) \div 2

\* Line 137: the fallback's split point.
SplitPoint(n) == n \div 2

NoDateWarning == Msg("warning", "No date column found in invoice file.")

FallbackNotice ==
  Msg("error", "Date column not found or not specified. Using index-based splitting as fallback.")

\* Lines 135-139.
SplitByIndex(all_invoices, split_point) ==
  [resa     |-> iloc(all_invoices, 0, split_point),
   invoices |-> iloc(all_invoices, split_point, Len(all_invoices.rows)),
   messages |-> <<NoDateWarning, FallbackNotice>>]

\* Line 112.
DateColumns(df) == SelectSeq(df.columns, LAMBDA c : Contains(c, "date"))

\* Lines 111-139: resa and invoices from all_invoices.
PartitionInvoices(all_invoices, cutoff, dcn) ==
  IF DateColumns(all_invoices) # <<>> THEN
    SplitByDate(DatetimeColumn(all_invoices, DateColumns(all_invoices)[1]),
                DateColumns(all_invoices)[1], pdTimestamp(cutoff),
                <<Msg("info", "Using date column"), Msg("success", "Split invoices")>>)
  ELSE IF dcn # "" /\ HasCol(all_invoices, dcn) THEN
    SplitByDate(DatetimeColumn(all_invoices, dcn), dcn, pdTimestamp(cutoff),
                <<NoDateWarning>>)
  ELSE SplitByIndex(all_invoices, SplitPoint(Len(all_invoices.rows)))

\* Lines 146-157: the columns to keep of the Boost file.
BoostColumnsToKeep(df, email_cols, name_cols) ==
  IF (~HasCol(df, "Email") \/ ~HasCol(df, "Prenom_Nom"))
       /\ email_cols # <<>> /\ name_cols # <<>>
    THEN <<email_cols[1], name_cols[1]>>
    ELSE <<"Email", "Prenom_Nom">>

\* Line 160: df[columns_to_keep]
KeepColumns(df, keep) ==
  IF \E j \in DOMAIN keep : ~HasCol(df, keep[j])
    THEN [exc |-> "KeyError", df |-> EmptyDf]
    ELSE [exc |-> "none", df |-> Project(df, keep)]

\* Lines 145-160: the Boost file cut to its email and name columns.
SelectBoostColumns(df) ==
  KeepColumns(df,
    BoostColumnsToKeep(df,
      SelectSeq(df.columns, LAMBDA c : Contains(c, "email")),
      SelectSeq(df.columns, LAMBDA c : Contains(c, "nom") \/ Contains(c, "name"))))

\* Lines 168-171.
ResolveEmail(c, email_col) ==
  IF ~HasCol(c, "Email") /\ email_col # <<>> THEN rename(c, email_col[1], "Email")
  ELSE c

\* Line 174: clients[clients['Email'].isin(df.iloc[:, 0])]
KeepKnownEmails(c, emails) ==
  IF ~HasCol(c, "Email")
    THEN [exc |-> "KeyError", clients |-> EmptyDf]
    ELSE [exc |-> "none", clients |-> FilterRows(c, LAMBDA r : isin(r["Email"], emails))]

\* Lines 165-174: the clients whose Email is in the Boost file's first column.
FilterClientsByEmail(clients0, df) ==
  KeepKnownEmails(
    ResolveEmail(clients0, SelectSeq(clients0.columns, LAMBDA c : Contains(c, "email"))),
    ColValues(df, df.columns[1]))

\* Lines 178-182.
ResolveClientNum(c, client_num_cols) ==
  IF ~HasCol(c, NumClient) /\ client_num_cols # <<>>
    THEN rename(c, client_num_cols[1], NumClient)
    ELSE c

\* Line 189: clients[~clients[id].isin(clients_in_resa[id])]
DropClients(c, ids_in_resa) ==
  FilterRows(c, LAMBDA r : ~isin(r[NumClient], ids_in_resa))

\* Lines 186-189: clients_in_resa, then the clients without them.
RemoveClientsInResa(c, resa_) ==
  IF ~HasCol(c, NumClient) \/ ~HasCol(resa_, NumClient)
    THEN [exc |-> "KeyError", clients |-> EmptyDf]
    ELSE [exc |-> "none",
          clients |->
            DropClients(c,
              ColValues(FilterRows(c, LAMBDA r :
                          isin(r[NumClient], ColValues(resa_, NumClient))),
                        NumClient))]

\* Lines 177-189: the clients with no row in resa.
ReconcileClients(c, resa_) ==
  RemoveClientsInResa(
    ResolveClientNum(c, SelectSeq(c.columns, LAMBDA col :
      Contains(col, "client") /\ (Contains(col, "num") \/ Contains(col, "id")))),
    resa_)

\* Lines 194-198: the amount column.
AmountCol(inv) ==
  IF ~HasCol(inv, "Montant TTC de la ligne facture ou avoir")
     /\ SelectSeq(inv.columns,
                  LAMBDA c : Contains(c, "montant") \/ Contains(c, "amount")) # <<>>
    THEN SelectSeq(inv.columns,
                   LAMBDA c : Contains(c, "montant") \/ Contains(c, "amount"))[1]
    ELSE "Montant TTC de la ligne facture ou avoir"

\* value != 0 on one cell: a string or a missing value is not equal to 0.
NotZero(x) == ~(x.k = "num" /\ x.v = 0)

\* Line 201: invoices[invoices[amount_col] != 0]
FilterNonZero(inv, amount_col) ==
  IF ~HasCol(inv, amount_col)
    THEN [exc |-> "KeyError", invoices |-> EmptyDf]
    ELSE [exc |-> "none", invoices |-> FilterRows(inv, LAMBDA r : NotZero(r[amount_col]))]

\* Line 209: invoices[invoices[id].isin(clients[id])]
InvoicesOf(inv, cli) ==
  [clients  |-> cli,
   invoices |-> FilterRows(inv, LAMBDA r : isin(r[NumClient], ColValues(cli, NumClient)))]

\* Lines 205-209: both id columns as str, then the invoices of the clients.
FilterByClients(inv, cli) == InvoicesOf(StrColumn(inv, NumClient), StrColumn(cli, NumClient))

\* Lines 214-216: decimal comma to decimal point, then to_numeric.
CleanAmounts(inv, amount_col) ==
  [inv EXCEPT !.dtypes[amount_col] = "float64",
              !.rows = [i \in DOMAIN inv.rows |->
                 [inv.rows[i] EXCEPT ![amount_col] = to_numeric(replace_comma(@))]]]

\* Lines 219-223: the product column.
ProductCol(inv) ==
  IF ~HasCol(inv, "Nom du Produit")
     /\ SelectSeq(inv.columns,
                  LAMBDA c : Contains(c, "produit") \/ Contains(c, "product")) # <<>>
    THEN SelectSeq(inv.columns,
                   LAMBDA c : Contains(c, "produit") \/ Contains(c, "product"))[1]
    ELSE "Nom du Produit"

\* The least of a set of texts, and the keys of a groupby, sorted.
MinText(S) == CHOOSE x \in S : \A y \in S \ {x} : StrLess(x, y)

RECURSIVE SortTexts(_)
SortTexts(S) ==
  IF S = {} THEN <<>> ELSE <<MinText(S)>> \o SortTexts(S \ {MinText(S)})

\* 'sum' of a group: missing values are skipped.
RECURSIVE SumAmounts(_)
SumAmounts(xs) ==
  IF xs = <<>> THEN 0
  ELSE (IF xs[1].k = "num" THEN xs[1].v ELSE 0) + SumAmounts(Tail(xs))

\* Series.unique(): the distinct values in order of first appearance.
AppendNew(front, x) == IF x \in Range(front) THEN front ELSE Append(front, x)

RECURSIVE Unique(_)
Unique(xs) ==
  IF xs = <<>> THEN <<>>
  ELSE AppendNew(Unique(SubSeq(xs, 1, Len(xs) - 1)), xs[Len(xs)])

\* ', '.join(texts)
RECURSIVE Join(_)
Join(ts) ==
  IF ts = <<>> THEN <<>>
  ELSE IF Len(ts) = 1 THEN ts[1]
  ELSE ts[1] \o <<",", " ">> \o Join(Tail(ts))

ResultColumns == <<NumClient, "Total Amount", "Products">>

EmptyResult == [columns |-> <<>>, rows |-> <<>>]

\* The product names of a group, joined.
ProductsOf(g, product_col) ==
  Join([i \in DOMAIN Unique([j \in DOMAIN g |-> g[j][product_col]]) |->
          Unique([j \in DOMAIN g |-> g[j][product_col]])[i].v])

\* One row of the agg: the key, the sum of the amounts, the joined products.
GroupRow(key, g, amount_col, product_col) ==
  [c \in Range(ResultColumns) |->
     CASE c = NumClient      -> Str(key)
       [] c = "Total Amount" -> Num(SumAmounts([i \in DOMAIN g |-> g[i][amount_col]]))
       [] c = "Products"     -> Str(ProductsOf(g, product_col))]

GroupRows(inv, keys, amount_col, product_col) ==
  [j \in DOMAIN keys |->
     GroupRow(keys[j], SelectSeq(inv.rows, LAMBDA r : r[NumClient].v = keys[j]),
              amount_col, product_col)]

\* Lines 228-233: one row per group of 'Numéro du client'.  A product column
\* that does not exist is a KeyError of agg; a product value that is not a
\* str is a TypeError of join.
Aggregate(inv, amount_col, product_col) ==
  IF ~HasCol(inv, product_col)
    THEN [exc |-> "KeyError", total_amounts |-> EmptyResult]
  ELSE IF \E i \in DOMAIN inv.rows : inv.rows[i][product_col].k # "str"
    THEN [exc |-> "TypeError", total_amounts |-> EmptyResult]
  ELSE [exc |-> "none",
        total_amounts |->
          [columns |-> ResultColumns,
           rows |-> GroupRows(inv,
                      SortTexts({inv.rows[i][NumClient].v : i \in DOMAIN inv.rows}),
                      amount_col, product_col)]]

WithEmail(l, e) ==
  [c \in Range(ResultColumns) \cup {"Email"} |-> IF c = "Email" THEN e ELSE l[c]]

\* The right rows a left row matches.
Matches(l, right) ==
  SelectSeq(right, LAMBDA r :
    r[NumClient].k = l[NumClient].k /\ r[NumClient].v = l[NumClient].v)

\* A left row once per matching right row, in the right rows' order; a left
\* row without a match once, with a missing Email.
JoinLeft(l, matches) ==
  IF matches = <<>> THEN <<WithEmail(l, NaN)>>
  ELSE [i \in DOMAIN matches |-> WithEmail(l, matches[i]["Email"])]

RECURSIVE MergeRows(_, _)
MergeRows(left, right) ==
  IF left = <<>> THEN <<>>
  ELSE JoinLeft(left[1], Matches(left[1], right)) \o MergeRows(Tail(left), right)

\* Lines 236-241: total_amounts.merge(clients[[id, 'Email']], how='left').
MergeEmail(total_amounts, cli) ==
  IF HasCol(cli, "Email")
    THEN [columns |-> Append(total_amounts.columns, "Email"),
          rows    |-> MergeRows(total_amounts.rows, cli.rows)]
    ELSE total_amounts

(***************************************************************************)
(* The handler, lines 101-253: its locals when it ends, exc being the      *)
(* exception the except clause caught ("none": the try block ran to its    *)
(* end).  invoices is the value of lines 124, 133 or 139.                  *)
(***************************************************************************)
ReadingMessages(part) ==
  <<Msg("info", "Reading invoice file and splitting by date")>>
    \o part.messages \o <<Msg("info", "Reading Boost file...")>>

\* Lines 251-253.
Failed(part, cli, e) ==
  [exc |-> e, resa |-> part.resa, invoices |-> part.invoices, clients |-> cli,
   messages |-> ReadingMessages(part) \o <<Msg("error", "An error occurred")>>,
   total_amounts |-> EmptyResult]

\* Lines 235-249.
Completed(part, fc, agg) ==
  [exc |-> "none", resa |-> part.resa, invoices |-> part.invoices,
   clients |-> fc.clients,
   messages |-> ReadingMessages(part)
                  \o <<Msg("success", "Found clients with activity only after cutoff"),
                       Msg("success", "Processing complete!")>>,
   total_amounts |-> MergeEmail(agg.total_amounts, fc.clients)]

AfterAggregate(part, fc, agg) ==
  IF agg.exc # "none" THEN Failed(part, fc.clients, agg.exc)
  ELSE Completed(part, fc, agg)

\* Lines 204-233.
AfterNonZero(part, fc) ==
  AfterAggregate(part, fc,
    Aggregate(CleanAmounts(fc.invoices, AmountCol(fc.invoices)),
              AmountCol(fc.invoices), ProductCol(fc.invoices)))

\* Lines 193-210.
AfterReconcile(part, c2, nz) ==
  IF nz.exc # "none" THEN Failed(part, c2.clients, nz.exc)
  ELSE AfterNonZero(part, FilterByClients(nz.invoices, c2.clients))

\* Lines 177-202.
AfterEmailFilter(part, c1, c2) ==
  IF c2.exc # "none" THEN Failed(part, c1.clients, c2.exc)
  ELSE AfterReconcile(part, c2, FilterNonZero(part.invoices, AmountCol(part.invoices)))

\* Lines 163-191.
AfterBoost(part, c1) ==
  IF c1.exc # "none" THEN Failed(part, EmptyDf, c1.exc)
  ELSE AfterEmailFilter(part, c1, ReconcileClients(c1.clients, part.resa))

\* Lines 143-175.
AfterPartition(part, b, clients0) ==
  IF b.exc # "none" THEN Failed(part, EmptyDf, b.exc)
  ELSE AfterBoost(part, FilterClientsByEmail(clients0, b.df))

Handler(inv_f, boost_f, cli_f, cutoff, dcn) ==
  AfterPartition(PartitionInvoices(read_csv(inv_f), cutoff, dcn),
                 SelectBoostColumns(read_csv(boost_f)),
                 read_csv(cli_f))

\* st.session_state.result_df = None
NoResult == [none |-> TRUE, columns |-> <<>>, rows |-> <<>>]

\* session_state had lines 246-247 stood in a finally clause.
SessionAfterAlways(out, before) ==
  [processed |-> TRUE,
   result_df |-> [none |-> FALSE, columns |-> out.total_amounts.columns,
                  rows |-> out.total_amounts.rows]]

\* Lines 245-253: session_state after the handler, from session_state before.
SessionAfter(out, before) ==
  IF out.exc = "none"
    THEN [processed |-> TRUE,
          result_df |-> [none |-> FALSE, columns |-> out.total_amounts.columns,
                         rows |-> out.total_amounts.rows]]
    ELSE before

(***************************************************************************)
(* The widgets and the actions.                                            *)
(***************************************************************************)
\* A file_uploader that holds no file.
NoFile == [header |-> <<>>, rows |-> <<>>]

\* date(2024, 7, 1), the date_input's default.
DefaultCutoff == [year |-> 2024, month |-> 7, day |-> 1]

\* Lines 36-40, and the locals of a script run whose button was not clicked.
InitSession ==
  /\ processed = FALSE
  /\ result_df = NoResult
  /\ pc = "idle"
  /\ resa = EmptyDf /\ invoices = EmptyDf /\ clients = EmptyDf
  /\ messages = <<>>

Init ==
  /\ invoice_file = NoFile /\ boost_file = NoFile /\ clients_file = NoFile
  /\ cutoff_date = DefaultCutoff
  /\ date_col_name = ""
  /\ InitSession

\* A widget changes: the script reruns with the button not clicked, so the
\* handler's locals and messages are gone and session_state stays.
Rerun ==
  /\ pc' = "idle"
  /\ resa' = EmptyDf /\ invoices' = EmptyDf /\ clients' = EmptyDf
  /\ messages' = <<>>
  /\ UNCHANGED <<processed, result_df>>

UploadInvoice(files) ==
  /\ \E f \in files : invoice_file' = f
  /\ invoice_file' # invoice_file
  /\ UNCHANGED <<boost_file, clients_file, cutoff_date, date_col_name>>
  /\ Rerun

UploadBoost(files) ==
  /\ \E f \in files : boost_file' = f
  /\ boost_file' # boost_file
  /\ UNCHANGED <<invoice_file, clients_file, cutoff_date, date_col_name>>
  /\ Rerun

UploadClients(files) ==
  /\ \E f \in files : clients_file' = f
  /\ clients_file' # clients_file
  /\ UNCHANGED <<invoice_file, boost_file, cutoff_date, date_col_name>>
  /\ Rerun

SetCutoff(dates) ==
  /\ \E d \in dates : cutoff_date' = d
  /\ cutoff_date' # cutoff_date
  /\ UNCHANGED <<invoice_file, boost_file, clients_file, date_col_name>>
  /\ Rerun

\* The text typed into "Enter the exact date column name:".
EnterDateColumn(names) ==
  /\ \E n \in names : date_col_name' = n
  /\ date_col_name' # date_col_name
  /\ UNCHANGED <<invoice_file, boost_file, clients_file, cutoff_date>>
  /\ Rerun

\* The handler's effects on the state.
Finish(out, ss) ==
  /\ pc' = IF out.exc = "none" THEN "complete" ELSE "error"
  /\ resa' = out.resa
  /\ invoices' = out.invoices
  /\ clients' = out.clients
  /\ messages' = out.messages
  /\ processed' = ss.processed
  /\ result_df' = ss.result_df

Store(out) ==
  Finish(out, SessionAfter(out, [processed |-> processed, result_df |-> result_df]))

\* Lines 98-253: a click on "Process Files" (enabled once the three files are
\* uploaded).
ProcessFiles ==
  /\ invoice_file # NoFile /\ boost_file # NoFile /\ clients_file # NoFile
  /\ Store(Handler(invoice_file, boost_file, clients_file, cutoff_date, date_col_name))
  /\ UNCHANGED widgets

(***************************************************************************)
(* The files the checks upload.                                            *)
(***************************************************************************)
MaxRows == 3
MaxInvoiceRows == 3
MaxClientRows == 2

d0630 == <<"2", "0", "2", "4", "-", "0", "6", "-", "3", "0">>
d0701 == <<"2", "0", "2", "4", "-", "0", "7", "-", "0", "1">>
d0702 == <<"2", "0", "2", "4", "-", "0", "7", "-", "0", "2">>
garbage == <<"a", "b", "c">>
empty == <<>>

id1 == <<"1">>
id2 == <<"2">>
idA == <<"A">>

amt0  == <<"0", ",", "0", "0">>
amt15 == <<"1", "5", ",", "0", "0">>
amt20 == <<"2", "0", ",", "0", "0">>

prodA == <<"A">>
prodB == <<"B">>

mailA == <<"a">>
mailB == <<"b">>

AmountHeader == "Montant TTC de la ligne facture ou avoir"

InvoiceHeader == <<"Date facture", NumClient, AmountHeader, "Nom du Produit">>

SeqsUpTo(pool, n) == UNION {[1..k -> pool] : k \in 0..n}

Cutoffs == {DefaultCutoff, [year |-> 2024, month |-> 7, day |-> 2]}

DateColumnNames == {"", "Jour", "Date"}

BoostAB == [header |-> <<"Email", "Prenom_Nom">>,
            rows |-> <<<<mailA, <<"N">>>>, <<mailB, <<"N">>>>>>]

BoostA == [header |-> <<"Email", "Prenom_Nom">>, rows |-> <<<<mailA, <<"N">>>>>>]

\* A Boost file with no column for the email.
BoostNoEmail == [header |-> <<"Prenom_Nom">>, rows |-> <<<<<<"N">>>>>>]

Clients1 == [header |-> <<NumClient, "Email">>, rows |-> <<<<id1, mailA>>>>]

Clients12 == [header |-> <<"Client_ID", "Adresse email">>,
              rows |-> <<<<id1, mailA>>, <<id2, mailB>>>>]

\* A clients file with no column for the email.
ClientsNoEmail == [header |-> <<NumClient>>, rows |-> <<<<id1>>>>]

(***************************************************************************)
(* Spec: the session from the first page load, the user uploading files,   *)
(* changing the widgets and clicking the button, runs that fail among      *)
(* them.                                                                   *)
(***************************************************************************)
SessionInvoiceFiles ==
  {[header |-> InvoiceHeader, rows |-> <<<<d0702, id1, amt15, prodA>>>>],
   [header |-> InvoiceHeader,
    rows |-> <<<<d0701, id1, amt20, prodB>>, <<d0702, id2, amt15, prodA>>>>],
   [header |-> InvoiceHeader,
    rows |-> <<<<d0630, id1, amt15, prodA>>, <<d0702, id2, amt15, prodA>>>>],
   [header |-> <<"Date facture", NumClient, "Nom du Produit">>,
    rows |-> <<<<d0702, id1, prodA>>>>],
   [header |-> <<"Date facture", NumClient, "Montant", "Produit">>,
    rows |-> <<<<d0702, id1, amt15, empty>>>>]}

Next ==
  \/ UploadInvoice(SessionInvoiceFiles)
  \/ UploadBoost({BoostAB, BoostNoEmail})
  \/ UploadClients({Clients1, Clients12, ClientsNoEmail})
  \/ SetCutoff(Cutoffs)
  \/ EnterDateColumn(DateColumnNames)
  \/ ProcessFiles

Spec == Init /\ [][Next]_vars

(***************************************************************************)
(* SpecPartition: invoice files that differ in their date cells, with and  *)
(* without a column whose name contains 'date'.                            *)
(***************************************************************************)
PartitionFiles ==
  {[header |-> <<h, NumClient, AmountHeader, "Nom du Produit">>, rows |-> rs] :
     h \in {"Date facture", "Jour"},
     rs \in SeqsUpTo({<<d, id1, amt15, prodA>> : d \in {d0630, d0701, garbage, empty}},
                     MaxRows)}

InitPartition ==
  /\ invoice_file \in PartitionFiles
  /\ boost_file = BoostAB
  /\ clients_file = Clients1
  /\ cutoff_date = DefaultCutoff
  /\ date_col_name = ""
  /\ InitSession

NextPartition ==
  \/ SetCutoff(Cutoffs)
  \/ EnterDateColumn(DateColumnNames)
  \/ ProcessFiles

SpecPartition == InitPartition /\ [][NextPartition]_vars

(***************************************************************************)
(* SpecReconcile: invoice and clients files that differ in their client    *)
(* ids, amounts and products.                                              *)
(***************************************************************************)
InvoiceRowPool ==
  {<<d0630, id1, amt15, prodA>>,
   <<d0702, id1, amt15, prodA>>,
   <<d0702, id1, amt0, prodB>>,
   <<d0702, id1, garbage, prodA>>,
   <<d0702, empty, amt15, prodA>>,
   <<d0702, id2, amt20, prodB>>}

WithoutProduct(rows) == [i \in DOMAIN rows |-> SubSeq(rows[i], 1, 3)]

ReconcileInvoiceFiles ==
  {[header |-> InvoiceHeader, rows |-> rs] :
     rs \in SeqsUpTo(InvoiceRowPool, MaxInvoiceRows) \ {<<>>}}
  \cup
  {[header |-> SubSeq(InvoiceHeader, 1, 3), rows |-> WithoutProduct(rs)] :
     rs \in SeqsUpTo(InvoiceRowPool, MaxInvoiceRows) \ {<<>>}}

ClientRowPool ==
  {<<id1, mailA>>, <<id1, mailB>>, <<idA, mailB>>, <<id2, mailB>>}

\* Clients files of distinct rows.
ReconcileClientFiles ==
  {[header |-> <<NumClient, "Email">>, rows |-> rs] :
     rs \in {r \in SeqsUpTo(ClientRowPool, MaxClientRows) \ {<<>>} :
               \A i, j \in DOMAIN r : r[i] = r[j] => i = j}}

InitReconcile ==
  /\ invoice_file \in ReconcileInvoiceFiles
  /\ boost_file \in {BoostAB, BoostA}
  /\ clients_file \in ReconcileClientFiles
  /\ cutoff_date = DefaultCutoff
  /\ date_col_name = ""
  /\ InitSession

NextReconcile ==
  \/ SetCutoff(Cutoffs)
  \/ ProcessFiles

SpecReconcile == InitReconcile /\ [][NextReconcile]_vars


(***************************************************************************)
(* What the claims speak of, read off the uploaded files.                  *)
(***************************************************************************)
\* The text of a cell of an uploaded file, by the row's index label.
RawCell(file, label, col) == file.rows[label + 1][ColIndex(file.header, col)]

Labels(df) == Range(df.index)

\* The amount of a cell once its decimal comma is a decimal point.
ParsedAmount(t) == to_numeric(replace_comma(IF t = <<>> THEN NaN ELSE Str(t)))

ValidNonZero(t) == ParsedAmount(t).k = "num" /\ ParsedAmount(t).v # 0

Unparsable(t) == t # <<>> /\ ParsedAmount(t).k = "nan"

Totals(rows) == SumAmounts([i \in DOMAIN rows |-> rows[i]["Total Amount"]])

Reverse(s) == [i \in DOMAIN s |-> s[Len(s) + 1 - i]]

\* The date column the handler resolved: the first whose name contains
\* 'date', else the name typed in when it is a column.
DateColumnResolved ==
  \/ DateColumns(read_csv(invoice_file)) # <<>>
  \/ date_col_name # "" /\ date_col_name \in Range(invoice_file.header)

ResolvedDateColumn ==
  IF DateColumns(read_csv(invoice_file)) # <<>>
    THEN DateColumns(read_csv(invoice_file))[1]
    ELSE date_col_name

ParsedDate(label) ==
  to_datetime(read_csv(invoice_file).rows[label + 1][ResolvedDateColumn])

AllLabels == {i - 1 : i \in DOMAIN invoice_file.rows}

\* The after-partition rows of the client whose id cell reads t, in order.
AfterLabelsOf(t) ==
  SelectSeq(invoices.index, LAMBDA l : RawCell(invoice_file, l, NumClient) = t)

(***************************************************************************)
(* The claims.                                                             *)
(***************************************************************************)

\* C1: after a completed run no client id that occurs in a row of resa (the
\* 'before' partition) is the id of a result row or of a retained client.
C1_ResultDisjointFromBefore ==
  pc = "complete" =>
    \A j \in DOMAIN resa.index :
      /\ \A i \in DOMAIN result_df.rows :
           result_df.rows[i][NumClient].v # RawCell(invoice_file, resa.index[j], NumClient)
      /\ \A l \in Labels(clients) :
           RawCell(clients_file, l, NumClient)
             # RawCell(invoice_file, resa.index[j], NumClient)

\* C2: with the date column resolved, a row is in resa iff its parsed date is
\* before the cutoff, in invoices iff its parsed date is at or after the
\* cutoff, in neither when its date does not parse, and never in both.
C2_PartitionByDate ==
  (pc # "idle" /\ DateColumnResolved) =>
    /\ Cardinality(Labels(resa)) = Len(resa.index)
    /\ Cardinality(Labels(invoices)) = Len(invoices.index)
    /\ \A l \in AllLabels :
         /\ l \in Labels(resa) <=>
              (ParsedDate(l).k = "ts" /\ ParsedDate(l).v < pdTimestamp(cutoff_date).v)
         /\ l \in Labels(invoices) <=>
              (ParsedDate(l).k = "ts" /\ ParsedDate(l).v >= pdTimestamp(cutoff_date).v)
         /\ ParsedDate(l).k # "ts" => (l \notin Labels(resa) /\ l \notin Labels(invoices))
         /\ ~(l \in Labels(resa) /\ l \in Labels(invoices))

\* C2's case: a run that put rows before, rows after and left a row in neither.
C2_Witness ==
  /\ pc = "complete" /\ DateColumnResolved
  /\ Len(resa.rows) >= 1 /\ Len(invoices.rows) >= 1
  /\ Len(resa.rows) + Len(invoices.rows) < Len(invoice_file.rows)

\* C3: a product that occurs only on zero-amount rows of a client is not in
\* that client's Products: Products joins the products of the client's
\* after-partition rows whose parsed amount is not zero.
C3_ZeroRowsDropped ==
  pc = "complete" =>
    \A i \in DOMAIN result_df.rows :
      result_df.rows[i]["Products"].v =
        Join(Unique(
          [k \in DOMAIN SelectSeq(AfterLabelsOf(result_df.rows[i][NumClient].v),
                     LAMBDA l : ~(ParsedAmount(RawCell(invoice_file, l, AmountHeader)).k = "num"
                                  /\ ParsedAmount(RawCell(invoice_file, l, AmountHeader)).v = 0))
             |-> RawCell(invoice_file,
                   SelectSeq(AfterLabelsOf(result_df.rows[i][NumClient].v),
                     LAMBDA l : ~(ParsedAmount(RawCell(invoice_file, l, AmountHeader)).k = "num"
                                  /\ ParsedAmount(RawCell(invoice_file, l, AmountHeader)).v = 0))[k],
                   "Nom du Produit")]))

\* The sum of the parsed amounts of the after-partition rows whose client id
\* is the id of a retained client.
RetainedIds == {RawCell(clients_file, l, NumClient) : l \in Labels(clients)}

ExpectedTotal ==
  SumAmounts(
    [k \in DOMAIN SelectSeq(invoices.index,
                    LAMBDA l : RawCell(invoice_file, l, NumClient) \in RetainedIds)
       |-> ParsedAmount(RawCell(invoice_file,
             SelectSeq(invoices.index,
               LAMBDA l : RawCell(invoice_file, l, NumClient) \in RetainedIds)[k],
             AmountHeader))])

PermutedTotal ==
  Totals(Handler([invoice_file EXCEPT !.rows = Reverse(@)], boost_file,
                 [clients_file EXCEPT !.rows = Reverse(@)],
                 cutoff_date, date_col_name).total_amounts.rows)

\* C4: the Total Amounts of the result add up to the parsed amounts of the
\* after-partition rows of the retained clients, in whatever order the rows
\* of the input tables come.
C4_TotalsAddUp ==
  pc = "complete" =>
    /\ Totals(result_df.rows) = ExpectedTotal
    /\ PermutedTotal = ExpectedTotal

\* C5: a run that does not complete leaves session_state (processed,
\* result_df) as it was; only a completed run stores a result.
C5_FailedRunKeepsResult ==
  [][/\ pc' # "complete" => (processed' = processed /\ result_df' = result_df)
     /\ pc' = "complete" => (processed' /\ ~result_df'.none)]_vars

\* C5's case: a run failed after an earlier one had stored a result, which is
\* still the stored result.
C5_Witness == pc = "error" /\ processed /\ result_df.rows # <<>>

\* C6: with no product column in the invoice file the run completes and
\* every result row has Products "N/A".
C6_MissingProductGivesNA ==
  (pc # "idle"
     /\ SelectSeq(invoice_file.header, LAMBDA c :
          c = "Nom du Produit" \/ Contains(c, "produit") \/ Contains(c, "product")) = <<>>)
    => /\ pc = "complete"
       /\ \A i \in DOMAIN result_df.rows :
            result_df.rows[i]["Products"].v = <<"N", "/", "A">>

\* C7: an after-partition row whose amount does not parse does not abort the
\* run, and its client, when retained and with another row of a valid
\* non-zero amount, has a result row whose Total Amount is the sum of the
\* client's valid amounts.
C7_UnparsableAmountTolerated ==
  (pc # "idle" /\ HasCol(read_csv(invoice_file), ProductCol(read_csv(invoice_file)))) =>
    \A l \in Labels(invoices) :
      Unparsable(RawCell(invoice_file, l, AmountHeader)) =>
        /\ pc = "complete"
        /\ (/\ RawCell(invoice_file, l, NumClient) # <<>>
            /\ RawCell(invoice_file, l, NumClient) \in RetainedIds
            /\ \E l2 \in Labels(invoices) \ {l} :
                 /\ RawCell(invoice_file, l2, NumClient) = RawCell(invoice_file, l, NumClient)
                 /\ ValidNonZero(RawCell(invoice_file, l2, AmountHeader)))
           => \E i \in DOMAIN result_df.rows :
                /\ result_df.rows[i][NumClient].v = RawCell(invoice_file, l, NumClient)
                /\ result_df.rows[i]["Total Amount"].v =
                     SumAmounts([k \in DOMAIN AfterLabelsOf(RawCell(invoice_file, l, NumClient))
                       |-> ParsedAmount(RawCell(invoice_file,
                             AfterLabelsOf(RawCell(invoice_file, l, NumClient))[k],
                             AmountHeader))])

\* The emails of the Boost file's first column.
KnownEmails == {boost_file.rows[i][1] : i \in DOMAIN boost_file.rows}

\* C8, first comparison: a known client whose id reads like the id of a row
\* of resa is not retained.
C8_BeforeComparison ==
  \A l \in {i - 1 : i \in DOMAIN clients_file.rows}, j \in DOMAIN resa.index :
    (/\ RawCell(clients_file, l, "Email") \in KnownEmails
     /\ RawCell(clients_file, l, NumClient) # <<>>
     /\ RawCell(clients_file, l, NumClient) = RawCell(invoice_file, resa.index[j], NumClient))
    => l \notin Labels(clients)

\* C8, second comparison: an after-partition row of a valid non-zero amount
\* whose id reads like a retained client's id is in the result.
C8_AfterComparison ==
  \A l \in Labels(invoices) :
    (/\ RawCell(invoice_file, l, NumClient) # <<>>
     /\ RawCell(invoice_file, l, NumClient) \in RetainedIds
     /\ ValidNonZero(RawCell(invoice_file, l, AmountHeader)))
    => \E i \in DOMAIN result_df.rows :
         result_df.rows[i][NumClient].v = RawCell(invoice_file, l, NumClient)

\* C8, rendering: no id of the result ends in ".0".
C8_NoFloatRendering ==
  \A i \in DOMAIN result_df.rows :
    ~(/\ Len(result_df.rows[i][NumClient].v) > 2
      /\ SubSeq(result_df.rows[i][NumClient].v,
                Len(result_df.rows[i][NumClient].v) - 1,
                Len(result_df.rows[i][NumClient].v)) = <<".", "0">>)

\* C8: both client id comparisons treat an id by its text, whatever type its
\* column was read as, and no id is rendered like "1023.0".
C8_NormalizedIdComparison ==
  pc = "complete" =>
    (C8_BeforeComparison /\ C8_AfterComparison /\ C8_NoFloatRendering)

\* C9: with no date column and no valid column name typed in, the first
\* floor(n/2) rows are resa and the rest invoices, every row in exactly one
\* of them, and the fallback notice is among the messages.
C9_IndexFallback ==
  (pc # "idle" /\ ~DateColumnResolved) =>
    /\ 2 * Len(resa.index) <= Len(invoice_file.rows)
    /\ Len(invoice_file.rows) <= 2 * Len(resa.index) + 1
    /\ resa.index = [i \in 1..Len(resa.index) |-> i - 1]
    /\ invoices.index = [i \in 1..(Len(invoice_file.rows) - Len(resa.index)) |->
                           Len(resa.index) + i - 1]
    /\ resa.rows \o invoices.rows = read_csv(invoice_file).rows
    /\ \E i \in DOMAIN messages :
         /\ messages[i].level \in {"warning", "error"}
         /\ messages[i].text
              = "Date column not found or not specified. Using index-based splitting as fallback."

\* C9's case: the fallback split three rows into one before and two after.
C9_Witness ==
  /\ pc = "complete" /\ ~DateColumnResolved
  /\ Len(invoice_file.rows) = 3
  /\ Len(resa.rows) = 1 /\ Len(invoices.rows) = 2

\* C10: the result has one row per client id, carrying the Email of the
\* first retained client row with that id.
C10_OneRowPerClient ==
  pc = "complete" =>
    /\ \A i, j \in DOMAIN result_df.rows :
         result_df.rows[i][NumClient] = result_df.rows[j][NumClient] => i = j
    /\ \A i \in DOMAIN result_df.rows :
         \A k \in DOMAIN clients.rows :
           (/\ clients.rows[k][NumClient] = result_df.rows[i][NumClient]
            /\ \A k2 \in 1..(k - 1) :
                 clients.rows[k2][NumClient] # result_df.rows[i][NumClient])
           => result_df.rows[i]["Email"] = clients.rows[k]["Email"]

====
